---- MODULE Spec2Model ----
(***************************************************************************)
(* The Intcode interpreter of 2019/9/src/main.rs (struct Cpu): memory, the *)
(* instruction pointer, the relative base, and the fetch-decode-execute    *)
(* loop of Cpu::run.                                                       *)
(*                                                                         *)
(* Machine words are Rust i64 values.  TLC's integers are 32 bits wide, so *)
(* a word is kept as its two's-complement image: a tuple of I64Limbs limbs *)
(* of 16 bits, least significant first (1101 is <<1101, 0, 0, 0>>, -1 is   *)
(* <<65535, 65535, 65535, 65535>>).  Exact sums and products are computed  *)
(* on WideLimbs limbs (128 bits), where they cannot wrap.                  *)
(***************************************************************************)
EXTENDS Integers, Sequences, FiniteSets, TLC

VARIABLES
    memory,          \* Cpu.memory
    ip,              \* Cpu.ip, a usize
    rbase,           \* Cpu.rbase, an i64
    state,           \* "Running", "Halted" (break), "Exited" (loop condition), "Faulted" (panic)
    out,             \* the values printed by op_output, in order
    fault,           \* the panic that ended the run, NoFault if none
    last,            \* the iteration that ran last
    program,         \* the memory Cpu::new built, kept to tell the runs apart
    given,           \* the Vec<i64> handed to Cpu::new
    overflowChecks   \* the build: TRUE panics on i64 overflow (debug), FALSE wraps (release)

vars == <<memory, ip, rbase, state, out, fault, last, program, given, overflowChecks>>

(***************************************************************************)
(* i64 / usize arithmetic                                                  *)
(***************************************************************************)
LimbBase == 65536
I64Limbs == 4
WideLimbs == 8
Capacity == 4096

\* TLC evaluates an operator's argument anew each time the body uses it, and
\* an element of a function constructor each time the function is applied.
\* The({e : u \in {a}}) is e with u standing for the value of a, evaluated
\* once, and Strict turns a function on 1..n into the tuple of its values.
Strict(f) == f \o <<>>
The(S) == CHOOSE r \in S : TRUE

\* The image on k limbs of a natural number below 2^31.
FromNat(n, k) ==
    Strict([i \in 1..k |-> IF i = 1 THEN n % LimbBase
                           ELSE IF i = 2 THEN n \div LimbBase ELSE 0])

IsNeg(a) == \E u \in {a} : u[Len(u)] >= LimbBase \div 2

Not(a) == The({Strict([i \in 1..Len(u) |-> LimbBase - 1 - u[i]]) : u \in {a}})

\* a + b + c0 modulo 2^(16 * Len(a)); a and b have the same length.
AddN(a, b, c0) ==
    LET Sum(u, v) ==
            LET n == Len(u)
                c[i \in 0..n] ==
                    IF i = 0 THEN c0 ELSE (u[i] + v[i] + c[i - 1]) \div LimbBase
            IN  Strict([i \in 1..n |-> (u[i] + v[i] + c[i - 1]) % LimbBase])
    IN  The({Sum(u, v) : u \in {a}, v \in {b}})

NegN(a) == The({AddN(Not(u), FromNat(0, Len(u)), 1) : u \in {a}})

\* The literal n (a TLC integer, |n| < 2^31) as an i64.
W(n) == IF n >= 0 THEN FromNat(n, I64Limbs) ELSE NegN(FromNat(-n, I64Limbs))

Zero == W(0)

SignExtend(a, k) ==
    The({Strict([i \in 1..k |-> IF i <= Len(u) THEN u[i]
                                ELSE IF IsNeg(u) THEN LimbBase - 1 ELSE 0]) : u \in {a}})

Truncate(a, k) == The({Strict([i \in 1..k |-> u[i]]) : u \in {a}})

\* Limbs to bytes, least significant first: a limb product does not fit
\* TLC's integers, a byte product does.
Bytes(a) ==
    The({Strict([j \in 1..(2 * Len(u)) |->
                    IF j % 2 = 1 THEN u[(j + 1) \div 2] % 256
                    ELSE u[(j + 1) \div 2] \div 256]) : u \in {a}})

\* Column k of the schoolbook product of the byte strings x and y: the sum
\* of the x[i] * y[j] with (i - 1) + (j - 1) = k - 1.
Columns(x, y) ==
    Strict([k \in 1..Len(x) |->
               LET s[i \in 0..k] == IF i = 0 THEN 0 ELSE s[i - 1] + x[i] * y[k + 1 - i]
               IN  s[k]])

\* a * b modulo 2^(16 * Len(a)), by schoolbook multiplication on bytes.
MulN(a, b) ==
    LET Carry(col) ==
            LET t[k \in 0..Len(col)] ==
                    IF k = 0 THEN 0 ELSE col[k] + t[k - 1] \div 256
            IN  Strict([i \in 1..(Len(col) \div 2) |->
                           (t[2 * i - 1] % 256) + 256 * (t[2 * i] % 256)])
    IN  The({The({Carry(col) : col \in {Columns(x, y)}}) :
                x \in {Bytes(a)}, y \in {Bytes(b)}})

\* The exact sum and product of two i64 values, on 128 bits.
ExactAdd(a, b) == AddN(SignExtend(a, WideLimbs), SignExtend(b, WideLimbs), 0)
ExactMul(a, b) == MulN(SignExtend(a, WideLimbs), SignExtend(b, WideLimbs))

\* Whether a 128-bit value is an i64 value, and its low 64 bits.
FitsI64(x) == \E u \in {x} : SignExtend(Truncate(u, I64Limbs), WideLimbs) = u
WrapI64(x) == Truncate(x, I64Limbs)

\* Unsigned and signed order on equal-length images.
ULt(a, b) ==
    \E u \in {a}, v \in {b} :
        \E i \in 1..Len(u) : u[i] < v[i] /\ \A j \in (i + 1)..Len(u) : u[j] = v[j]

SLt(a, b) ==
    \E u \in {a}, v \in {b} : IF IsNeg(u) # IsNeg(v) THEN IsNeg(u) ELSE ULt(u, v)

\* Unsigned division of an image by a divisor d below 2^15 (long division from
\* the most significant limb).
UDivRem(m, d) ==
    LET Div(u) ==
            LET n == Len(u)
                r[i \in 1..(n + 1)] ==
                    IF i = n + 1 THEN 0 ELSE (r[i + 1] * LimbBase + u[i]) % d
            IN  [q |-> Strict([i \in 1..n |-> (r[i + 1] * LimbBase + u[i]) \div d]),
                 r |-> r[1]]
    IN  The({Div(u) : u \in {m}})

\* Rust's / and % on i64 by a small positive divisor: the quotient is
\* truncated toward zero and the remainder has the sign of the dividend.
DivSmall(a, d) ==
    The({IF IsNeg(u) THEN NegN(UDivRem(NegN(u), d).q) ELSE UDivRem(u, d).q : u \in {a}})

RemSmall(a, d) ==
    The({IF IsNeg(u) THEN 0 - UDivRem(NegN(u), d).r ELSE UDivRem(u, d).r : u \in {a}})

\* "{}" of an i64: its sign and decimal digits.
RECURSIVE Digits(_)
Digits(m) ==
    LET Rest(u) ==
            IF u = FromNat(0, Len(u)) THEN <<>>
            ELSE The({Append(Digits(qr.q), qr.r) : qr \in {UDivRem(u, 10)}})
    IN  The({Rest(u) : u \in {m}})

Display(w) ==
    The({[neg |-> IsNeg(u),
          digits |-> IF u = Zero THEN <<0>>
                     ELSE Digits(IF IsNeg(u) THEN NegN(u) ELSE u)] : u \in {w}})

(***************************************************************************)
(* Memory                                                                  *)
(*                                                                         *)
(* memory is the Vec<i64> of Capacity cells; a cell that holds 0 is left   *)
(* out of the function's domain, so DOMAIN memory is the set of non-zero   *)
(* cells and is always a subset of 0..Capacity-1.                          *)
(***************************************************************************)
Rd(mem, i) == IF i \in DOMAIN mem THEN mem[i] ELSE Zero

Wr(mem, i, v) ==
    IF v = Zero THEN [j \in DOMAIN mem \ {i} |-> mem[j]]
    ELSE [j \in DOMAIN mem \cup {i} |-> IF j = i THEN v ELSE mem[j]]

\* memory.len() as a usize, and Vec's bounds check of an index u (a usize
\* image): the access panics unless u < len.
MemLen == W(Capacity)
InBounds(u) == ULt(u, MemLen)
Idx(u) == u[1]

\* Cpu::new: the program, resized to Capacity cells (cut or zero-filled).
Resize(m) ==
    [i \in {j \in 0..(Capacity - 1) : j < Len(m) /\ m[j + 1] # Zero} |-> m[i + 1]]

\* A program written with small literals.
Prog(s) == [i \in 1..Len(s) |-> W(s[i])]

(***************************************************************************)
(* Results of a step.  A Rust panic ends the process: the step's result is *)
(* the fault and the state as it stood when the panic was raised.          *)
(***************************************************************************)
NoFault == "none"
BadOpcode == "Invalid opcode"
BadMode == "invalid parameter mode"
BadDest == "Dest argument should never be immediate"
AddOverflow == "attempt to add with overflow"
MulOverflow == "attempt to multiply with overflow"
BadInput == "called Result::unwrap() on an Err value"
OobFetch == "index out of bounds: opcode fetch"
OobParam == "index out of bounds: parameter read"
OobOperand == "index out of bounds: operand"
OobDest == "index out of bounds: destination"
OobFaults == {OobFetch, OobParam, OobOperand, OobDest}

Val(v) == [fault |-> NoFault, v |-> v]
Err(f) == [fault |-> f, v |-> Zero]

\* a + b and a * b on i64: a result that does not fit panics when the build
\* has overflow checks (debug) and wraps when it has not (release).
I64Add(a, b, chk) ==
    LET x == ExactAdd(a, b)
    IN  IF ~FitsI64(x) /\ chk THEN Err(AddOverflow) ELSE Val(WrapI64(x))

\* a * b on i32: the product keeps its low 32 bits.
I32Mul(a, b, chk) ==
    Val(SignExtend(Truncate(ExactMul(a, b), I64Limbs \div 2), I64Limbs))

I64Mul(a, b, chk) ==
    LET x == ExactMul(a, b)
    IN  IF ~FitsI64(x) /\ chk THEN Err(MulOverflow) ELSE Val(WrapI64(x))

\* `b as i64`
BoolAsI64(b) == IF b THEN W(1) ELSE Zero

(***************************************************************************)
(* Parameters and decoding                                                 *)
(***************************************************************************)
Position(v) == [mode |-> "Position", v |-> v]
Immediate(v) == [mode |-> "Immediate", v |-> v]
Relative(v) == [mode |-> "Relative", v |-> v]

\* pack_parameters whose match falls back to Position for an unknown digit.
RECURSIVE PackFromLenient(_, _, _, _, _, _)
PackFromLenient(mem, ipn, flags, cnt, i, acc) ==
    IF i = cnt THEN [fault |-> NoFault, args |-> acc]
    ELSE IF ~InBounds(W(ipn + i)) THEN [fault |-> OobParam, args |-> acc]
    ELSE LET val == Rd(mem, ipn + i)
             digit == RemSmall(flags, 10)
         IN  PackFromLenient(mem, ipn, DivSmall(flags, 10), cnt, i + 1,
                             Append(acc, CASE digit = 1 -> Immediate(val)
                                           [] digit = 2 -> Relative(val)
                                           [] OTHER -> Position(val)))

\* pack_parameters, from parameter i on: ipn is ip after the opcode word was
\* fetched, flags the mode digits still to be consumed.
RECURSIVE PackFrom(_, _, _, _, _, _)
PackFrom(mem, ipn, flags, cnt, i, acc) ==
    IF i = cnt THEN [fault |-> NoFault, args |-> acc]
    ELSE IF ~InBounds(W(ipn + i)) THEN [fault |-> OobParam, args |-> acc]
    ELSE LET val == Rd(mem, ipn + i)
             digit == RemSmall(flags, 10)
         IN  IF digit \notin {0, 1, 2} THEN [fault |-> BadMode, args |-> acc]
             ELSE PackFrom(mem, ipn, DivSmall(flags, 10), cnt, i + 1,
                           Append(acc, CASE digit = 0 -> Position(val)
                                            [] digit = 1 -> Immediate(val)
                                            [] digit = 2 -> Relative(val)))

pack_parameters(mem, ipn, cnt) ==
    PackFrom(mem, ipn, DivSmall(Rd(mem, ipn - 1), 100), cnt, 0, <<>>)

\* unpack_parameter that resolves a Relative parameter like a Position one.
unpack_without_rbase(mem, rb, p, chk) ==
    CASE p.mode = "Immediate" -> Val(p.v)
      [] p.mode \in {"Position", "Relative"} ->
            IF InBounds(p.v) THEN Val(Rd(mem, Idx(p.v))) ELSE Err(OobOperand)

unpack_parameter(mem, rb, p, chk) ==
    CASE p.mode = "Immediate" -> Val(p.v)
      [] p.mode = "Position" ->
            IF InBounds(p.v) THEN Val(Rd(mem, Idx(p.v))) ELSE Err(OobOperand)
      [] p.mode = "Relative" ->
            LET s == I64Add(rb, p.v, chk)
            IN  IF s.fault # NoFault THEN s
                ELSE IF InBounds(s.v) THEN Val(Rd(mem, Idx(s.v)))
                ELSE Err(OobOperand)

\* fetch_and_decode that packs three parameters for the jumps as well.
ParamCountJumpsThree(opcode) ==
    CASE opcode \in {1, 2, 5, 6, 7, 8} -> 3
      [] opcode \in {3, 4, 9} -> 1
      [] OTHER -> 0

\* The parameter count fetch_and_decode gives each opcode.
ParamCount(opcode) ==
    CASE opcode \in {1, 2, 7, 8} -> 3
      [] opcode \in {3, 4, 9} -> 1
      [] opcode \in {5, 6} -> 2
      [] OTHER -> 0

InstrName(opcode) ==
    CASE opcode = 1 -> "ADD" [] opcode = 2 -> "MUL" [] opcode = 3 -> "INPUT"
      [] opcode = 4 -> "OUTPUT" [] opcode \in {5, 6} -> "JUMP"
      [] opcode = 7 -> "LESSTHAN" [] opcode = 8 -> "EQUALS"
      [] opcode = 9 -> "RELBASE" [] opcode = 99 -> "HALT"
      [] OTHER -> "INVALID"

Opcodes == {1, 2, 3, 4, 5, 6, 7, 8, 9, 99}

(***************************************************************************)
(* Console input: a line is a tuple of characters.  read_line gives the    *)
(* line with its newline, the empty line at end of input, or an error.     *)
(***************************************************************************)
ReadError == <<"EIO">>
Whitespace == {" ", "\n", "\t", "\r"}
DigitVal ==
    [c \in {"0", "1", "2", "3", "4", "5", "6", "7", "8", "9"} |->
        CASE c = "0" -> 0 [] c = "1" -> 1 [] c = "2" -> 2 [] c = "3" -> 3
          [] c = "4" -> 4 [] c = "5" -> 5 [] c = "6" -> 6 [] c = "7" -> 7
          [] c = "8" -> 8 [] c = "9" -> 9]

\* str::trim
RECURSIVE Trim(_)
Trim(s) ==
    IF s = <<>> THEN s
    ELSE IF Head(s) \in Whitespace THEN Trim(Tail(s))
    ELSE IF s[Len(s)] \in Whitespace THEN Trim(SubSeq(s, 1, Len(s) - 1))
    ELSE s

\* i64::from_str on the digits ds: acc * 10 + d (or - d for a negative
\* number), an Err as soon as a step leaves the i64 range.
RECURSIVE ParseDigits(_, _, _)
ParseDigits(ds, neg, acc) ==
    LET Step(s, r) ==
            IF s = <<>> THEN Val(r)
            ELSE IF Head(s) \notin DOMAIN DigitVal THEN Err(BadInput)
            ELSE LET x == ExactMul(r, W(10))
                     d == W(DigitVal[Head(s)])
                     y == ExactAdd(WrapI64(x), IF neg THEN NegN(d) ELSE d)
                 IN  IF ~FitsI64(x) \/ ~FitsI64(y) THEN Err(BadInput)
                     ELSE ParseDigits(Tail(s), neg, WrapI64(y))
    IN  The({Step(s, r) : s \in {ds}, r \in {acc}})

\* buffer.trim().parse::<i64>()
ParseI64(line) ==
    LET t == Trim(line)
        signed == t # <<>> /\ Head(t) \in {"-", "+"}
        ds == IF signed THEN Tail(t) ELSE t
    IN  IF ds = <<>> THEN Err(BadInput)
        ELSE ParseDigits(ds, signed /\ Head(t) = "-", Zero)

(***************************************************************************)
(* Instruction implementations.  c is the Cpu ([memory, rbase, out, chk]); *)
(* the result is the Cpu's fields after the call, the fault it panicked    *)
(* with, whether it set ip (taken, target) and the cell it wrote (dest).   *)
(***************************************************************************)
Panic(c, f) ==
    [fault |-> f, memory |-> c.memory, rbase |-> c.rbase, out |-> c.out,
     taken |-> FALSE, target |-> Zero, dest |-> -1]

Done(c) == Panic(c, NoFault)

\* self.memory[dest as usize] = v
Store(c, dest, v) ==
    IF ~InBounds(dest) THEN Panic(c, OobDest)
    ELSE [Done(c) EXCEPT !.memory = Wr(c.memory, Idx(dest), v), !.dest = Idx(dest)]

\* op_add without the check of the destination's mode.
op_add_unchecked(c, args) ==
    LET a == unpack_parameter(c.memory, c.rbase, args[1], c.chk)
        b == unpack_parameter(c.memory, c.rbase, args[2], c.chk)
        r == I64Add(a.v, b.v, c.chk)
    IN  IF a.fault # NoFault THEN Panic(c, a.fault)
        ELSE IF b.fault # NoFault THEN Panic(c, b.fault)
        ELSE IF r.fault # NoFault THEN Panic(c, r.fault)
        ELSE Store(c, args[3].v, r.v)

op_add(c, args) ==
    IF args[3].mode # "Position" THEN Panic(c, BadDest)
    ELSE LET a == unpack_parameter(c.memory, c.rbase, args[1], c.chk)
             b == unpack_parameter(c.memory, c.rbase, args[2], c.chk)
             r == I64Add(a.v, b.v, c.chk)
         IN  IF a.fault # NoFault THEN Panic(c, a.fault)
             ELSE IF b.fault # NoFault THEN Panic(c, b.fault)
             ELSE IF r.fault # NoFault THEN Panic(c, r.fault)
             ELSE Store(c, args[3].v, r.v)

\* op_mul that multiplies in place: the first operand is stored in the
\* destination and the second is read after that store.
op_mul_in_place(c, args) ==
    IF args[3].mode # "Position" THEN Panic(c, BadDest)
    ELSE LET a == unpack_parameter(c.memory, c.rbase, args[1], c.chk)
             s == Store(c, args[3].v, a.v)
             b == unpack_parameter(s.memory, c.rbase, args[2], c.chk)
             r == I64Mul(a.v, b.v, c.chk)
         IN  IF a.fault # NoFault THEN Panic(c, a.fault)
             ELSE IF s.fault # NoFault THEN s
             ELSE IF b.fault # NoFault THEN Panic(c, b.fault)
             ELSE IF r.fault # NoFault THEN Panic(c, r.fault)
             ELSE Store(c, args[3].v, r.v)

op_mul(c, args) ==
    IF args[3].mode # "Position" THEN Panic(c, BadDest)
    ELSE LET a == unpack_parameter(c.memory, c.rbase, args[1], c.chk)
             b == unpack_parameter(c.memory, c.rbase, args[2], c.chk)
             r == I64Mul(a.v, b.v, c.chk)
         IN  IF a.fault # NoFault THEN Panic(c, a.fault)
             ELSE IF b.fault # NoFault THEN Panic(c, b.fault)
             ELSE IF r.fault # NoFault THEN Panic(c, r.fault)
             ELSE Store(c, args[3].v, r.v)

\* The line is read first, the destination is then the VALUE of the
\* parameter (unpack_parameter), and the parse precedes the store.
op_input(c, args, line) ==
    IF line = ReadError THEN Panic(c, BadInput)
    ELSE LET dest == unpack_parameter(c.memory, c.rbase, args[1], c.chk)
             v == ParseI64(line)
         IN  IF dest.fault # NoFault THEN Panic(c, dest.fault)
             ELSE IF v.fault # NoFault THEN Panic(c, v.fault)
             ELSE Store(c, dest.v, v.v)

\* op_output that puts the value in front of the ones already printed.
op_output_in_front(c, args) ==
    LET a == unpack_parameter(c.memory, c.rbase, args[1], c.chk)
    IN  IF a.fault # NoFault THEN Panic(c, a.fault)
        ELSE [Done(c) EXCEPT !.out = <<a.v>> \o c.out]

op_output(c, args) ==
    LET a == unpack_parameter(c.memory, c.rbase, args[1], c.chk)
    IN  IF a.fault # NoFault THEN Panic(c, a.fault)
        ELSE [Done(c) EXCEPT !.out = Append(c.out, a.v)]

\* op_jump that leaves test out of the comparison: both jumps are
\* jump-if-true.
op_jump_if_true(c, test, args) ==
    LET a == unpack_parameter(c.memory, c.rbase, args[1], c.chk)
        t == unpack_parameter(c.memory, c.rbase, args[2], c.chk)
    IN  IF a.fault # NoFault THEN Panic(c, a.fault)
        ELSE IF a.v = Zero THEN Done(c)
        ELSE IF t.fault # NoFault THEN Panic(c, t.fault)
        ELSE [Done(c) EXCEPT !.taken = TRUE, !.target = t.v]

\* op_jump that takes the magnitude of a negative target instead of its
\* usize image.
op_jump_abs(c, test, args) ==
    LET a == unpack_parameter(c.memory, c.rbase, args[1], c.chk)
        t == unpack_parameter(c.memory, c.rbase, args[2], c.chk)
    IN  IF a.fault # NoFault THEN Panic(c, a.fault)
        ELSE IF (a.v # Zero) # test THEN Done(c)
        ELSE IF t.fault # NoFault THEN Panic(c, t.fault)
        ELSE [Done(c) EXCEPT !.taken = TRUE,
                             !.target = IF IsNeg(t.v) THEN NegN(t.v) ELSE t.v]

\* The target is unpacked only when the jump is taken.
op_jump(c, test, args) ==
    LET a == unpack_parameter(c.memory, c.rbase, args[1], c.chk)
        t == unpack_parameter(c.memory, c.rbase, args[2], c.chk)
    IN  IF a.fault # NoFault THEN Panic(c, a.fault)
        ELSE IF (a.v # Zero) # test THEN Done(c)
        ELSE IF t.fault # NoFault THEN Panic(c, t.fault)
        ELSE [Done(c) EXCEPT !.taken = TRUE, !.target = t.v]

op_lessthan(c, args) ==
    IF args[3].mode # "Position" THEN Panic(c, BadDest)
    ELSE LET a == unpack_parameter(c.memory, c.rbase, args[1], c.chk)
             b == unpack_parameter(c.memory, c.rbase, args[2], c.chk)
         IN  IF a.fault # NoFault THEN Panic(c, a.fault)
             ELSE IF b.fault # NoFault THEN Panic(c, b.fault)
             ELSE Store(c, args[3].v, BoolAsI64(SLt(a.v, b.v)))

op_equals(c, args) ==
    IF args[3].mode # "Position" THEN Panic(c, BadDest)
    ELSE LET a == unpack_parameter(c.memory, c.rbase, args[1], c.chk)
             b == unpack_parameter(c.memory, c.rbase, args[2], c.chk)
         IN  IF a.fault # NoFault THEN Panic(c, a.fault)
             ELSE IF b.fault # NoFault THEN Panic(c, b.fault)
             ELSE Store(c, args[3].v, BoolAsI64(a.v = b.v))

\* op_relbase that assigns the operand instead of adding it.
op_relbase_assign(c, args) ==
    LET a == unpack_parameter(c.memory, c.rbase, args[1], c.chk)
    IN  IF a.fault # NoFault THEN Panic(c, a.fault)
        ELSE [Done(c) EXCEPT !.rbase = a.v]

op_relbase(c, args) ==
    LET a == unpack_parameter(c.memory, c.rbase, args[1], c.chk)
        r == I64Add(c.rbase, a.v, c.chk)
    IN  IF a.fault # NoFault THEN Panic(c, a.fault)
        ELSE IF r.fault # NoFault THEN Panic(c, r.fault)
        ELSE [Done(c) EXCEPT !.rbase = r.v]

(***************************************************************************)
(* Programs and input lines the model is run on                            *)
(***************************************************************************)
MaxModeDigit == 3
MaxBadOpcode == 10

Modes == 0..MaxModeDigit
Operands == {-1, 1, 3}
Dests == {-1, 3}
RBases == {0, 2}

\* An opcode word: the opcode and the mode digits of its three parameters.
Encode(op, m1, m2, m3) == op + 100 * m1 + 1000 * m2 + 10000 * m3

MaxI64 == <<65535, 65535, 65535, 32767>>
MinI64 == <<0, 0, 0, 32768>>
BigVals == {MaxI64, MinI64, <<0, 0, 1, 0>>, W(2), W(-1)}

\* The programs of the tests (example1, manual_output_confirmation).
TestAdd == Prog(<<1101, 100, -1, 4, 0>>)
TestMul == Prog(<<1002, 4, 3, 4, 33>>)
Quine ==
    Prog(<<109, 1, 204, -1, 1001, 100, 1, 100, 1008, 100, 16, 101, 1006, 101, 0, 99>>)
BigMul == Prog(<<1102, 34915192, 34915192, 7, 4, 7, 99, 0>>)
BigOut == <<W(104), <<0, 0, 0, 4>>, W(99)>>
TestPrograms == {TestAdd, TestMul, Quine, BigMul, BigOut}

\* One instruction after an AdjustRelativeBase, then Halt.
ThreeParam ==
    {Prog(<<109, 2, Encode(op, m1, m2, m3), a, b, c, 99>>) :
        op \in {1, 2, 7, 8}, m1 \in Modes, m2 \in Modes, m3 \in Modes,
        a \in Operands, b \in Operands \ {-1}, c \in Dests}

OneParam ==
    {Prog(<<109, r, Encode(op, m1, 0, 0), a, 99>>) :
        op \in {3, 4, 9}, r \in RBases, m1 \in Modes, a \in Operands}

\* Jumps run with rbase 0: a jump back over an AdjustRelativeBase that adds
\* a non-zero amount would raise rbase without end.
Jumps ==
    {Prog(<<109, 0, Encode(op, m1, m2, 0), a, b, 99>>) :
        op \in {5, 6}, m1 \in Modes, m2 \in Modes,
        a \in Operands, b \in Operands \cup {0, Capacity}}

BadOpcodes ==
    {Prog(<<Encode(op, m1, 0, 0), 1, 1, 1>>) :
        op \in ((0..MaxBadOpcode) \cup {-1, -99, 98}) \ Opcodes, m1 \in Modes}

\* Sums, products and relative bases at the edge of the i64 range.
Overflows ==
    {<<W(op), x, y, W(0)>> : op \in {1101, 1102}, x \in BigVals, y \in BigVals}
    \cup {<<W(109), x, W(109), y, W(204), W(1)>> : x \in BigVals, y \in BigVals}
    \cup {<<W(109), x, W(204), y>> : x \in BigVals, y \in BigVals}

\* A program that fills the memory: a jump to its last words, which hold an
\* instruction of n words ending in the final cell, or one cut short by the
\* end of memory.
AtEnd(instr) ==
    [i \in 1..Capacity |->
        IF i <= 3 THEN W(<<1105, 1, Capacity - Len(instr)>>[i])
        ELSE IF i > Capacity - Len(instr) THEN W(instr[i - (Capacity - Len(instr))])
        ELSE Zero]

Tails ==
    {<<99>>, <<1101>>, <<104, 7>>, <<1105, 0, 0>>, <<1101, 1, 1>>,
     <<1101, 1, 1, 3>>, <<4, 4094>>, <<0>>, <<3101, 1>>}

BoundaryTails == Tails

\* A program of more than Capacity words: one that fills the memory, with a
\* Halt behind it.
TooLong == {Append(AtEnd(<<104, 7>>), W(99))}

\* Programs whose first opcode word is negative.
NegativeWords ==
    {<<w, W(1), W(1), W(1)>> :
        w \in {W(-1), W(-2), W(-99), W(-100), W(-101), W(-199), W(-1101), MinI64}}

Programs ==
    TestPrograms \cup ThreeParam \cup OneParam \cup Jumps \cup BadOpcodes
    \cup Overflows \cup NegativeWords

InputLines ==
    {<<"4", "2", "\n">>, <<"-", "7", "\n">>, <<" ", "+", "5", " ", "\n">>,
     <<"x", "\n">>, <<"-", "\n">>, <<>>, ReadError,
     <<"9", "2", "2", "3", "3", "7", "2", "0", "3", "6", "8", "5", "4", "7",
       "7", "5", "8", "0", "8">>}

(***************************************************************************)
(* The run loop                                                            *)
(***************************************************************************)
Cpu == [memory |-> memory, rbase |-> rbase, out |-> out, chk |-> overflowChecks]

\* while self.ip <= self.memory.len()
LoopCondInclusive(i) == ~ULt(MemLen, i)

\* while self.ip < self.memory.len()
LoopCond(i) == ULt(i, MemLen)

\* The opcode word fetch_and_decode reads at ip - 1 after ip += 1.
Fetch ==
    IF InBounds(ip) THEN Val(Rd(memory, Idx(ip))) ELSE Err(OobFetch)

\* opcode = memory[ip - 1] % 10
OpcodeOneDigit == RemSmall(Fetch.v, 10)

\* opcode as the non-negative remainder of the word by 100.
OpcodeEuclid == (RemSmall(Fetch.v, 100) + 100) % 100

Opcode == RemSmall(Fetch.v, 100)

\* An iteration that, on a panic, puts memory back as Cpu::new built it.
CommitRollback(opcode, e, newip, args, line) ==
    /\ memory' = IF e.fault # NoFault THEN program ELSE e.memory
    /\ rbase' = e.rbase
    /\ out' = e.out
    /\ fault' = e.fault
    /\ ip' = newip
    /\ state' = IF e.fault # NoFault THEN "Faulted"
                ELSE IF opcode = 99 THEN "Halted" ELSE "Running"
    /\ last' = [at |-> Idx(ip), opcode |-> opcode, op |-> InstrName(opcode),
                args |-> args, taken |-> e.taken, dest |-> e.dest, line |-> line]
    /\ UNCHANGED <<program, given, overflowChecks>>

\* What an iteration leaves behind: the state after it and, in last, the
\* line the loop printed for it (address, opcode, decoded instruction) with
\* what the instruction did.
Commit(opcode, e, newip, args, line) ==
    /\ memory' = e.memory
    /\ rbase' = e.rbase
    /\ out' = e.out
    /\ fault' = e.fault
    /\ ip' = newip
    /\ state' = IF e.fault # NoFault THEN "Faulted"
                ELSE IF opcode = 99 THEN "Halted" ELSE "Running"
    /\ last' = [at |-> Idx(ip), opcode |-> opcode, op |-> InstrName(opcode),
                args |-> args, taken |-> e.taken, dest |-> e.dest, line |-> line]
    /\ UNCHANGED <<program, given, overflowChecks>>

\* fetch_and_decode on a valid opcode: ip += 1, then pack_parameters.
Decode(opcode) == pack_parameters(memory, Idx(ip) + 1, ParamCount(opcode))

\* The end of an iteration that leaves ip where it was unless a jump set it.
FinishInPlace(opcode, d, e, line) ==
    IF d.fault # NoFault
    THEN Commit(opcode, Panic(Cpu, d.fault), ip, d.args, <<>>)
    ELSE Commit(opcode, e, IF e.taken THEN e.target ELSE ip, d.args, line)

\* The end of an iteration whose decoding gave d and whose instruction, when
\* d is no fault, gave e: ip is past the parameters unless a jump set it.
Finish(opcode, d, e, line) ==
    IF d.fault # NoFault
    THEN Commit(opcode, Panic(Cpu, d.fault), W(Idx(ip) + 1), d.args, <<>>)
    ELSE Commit(opcode, e,
                IF e.taken THEN e.target ELSE W(Idx(ip) + 1 + ParamCount(opcode)),
                d.args, line)

\* The loop runs an iteration and fetch_and_decode matches this opcode.
Fetches(opcode) ==
    /\ state = "Running"
    /\ LoopCond(ip)
    /\ Fetch.fault = NoFault
    /\ Opcode = opcode

\* One action for each arm of the match of fetch_and_decode and of run; d is
\* what the decoding gave and e what the instruction did.
StepAdd ==
    /\ Fetches(1)
    /\ \E d \in {Decode(1)} :
       \E e \in {IF d.fault = NoFault THEN op_add(Cpu, d.args) ELSE Done(Cpu)} :
          Finish(1, d, e, <<>>)

StepMul ==
    /\ Fetches(2)
    /\ \E d \in {Decode(2)} :
       \E e \in {IF d.fault = NoFault THEN op_mul(Cpu, d.args) ELSE Done(Cpu)} :
          Finish(2, d, e, <<>>)

StepInput ==
    /\ Fetches(3)
    /\ \E d \in {Decode(3)} :
       IF d.fault # NoFault THEN Finish(3, d, Done(Cpu), <<>>)
       ELSE \E line \in InputLines :
               \E e \in {op_input(Cpu, d.args, line)} : Finish(3, d, e, line)

StepOutput ==
    /\ Fetches(4)
    /\ \E d \in {Decode(4)} :
       \E e \in {IF d.fault = NoFault THEN op_output(Cpu, d.args) ELSE Done(Cpu)} :
          Finish(4, d, e, <<>>)

StepJumpIfTrue ==
    /\ Fetches(5)
    /\ \E d \in {Decode(5)} :
       \E e \in {IF d.fault = NoFault THEN op_jump(Cpu, TRUE, d.args) ELSE Done(Cpu)} :
          Finish(5, d, e, <<>>)

StepJumpIfFalse ==
    /\ Fetches(6)
    /\ \E d \in {Decode(6)} :
       \E e \in {IF d.fault = NoFault THEN op_jump(Cpu, FALSE, d.args) ELSE Done(Cpu)} :
          Finish(6, d, e, <<>>)

StepLessThan ==
    /\ Fetches(7)
    /\ \E d \in {Decode(7)} :
       \E e \in {IF d.fault = NoFault THEN op_lessthan(Cpu, d.args) ELSE Done(Cpu)} :
          Finish(7, d, e, <<>>)

StepEquals ==
    /\ Fetches(8)
    /\ \E d \in {Decode(8)} :
       \E e \in {IF d.fault = NoFault THEN op_equals(Cpu, d.args) ELSE Done(Cpu)} :
          Finish(8, d, e, <<>>)

StepRelBase ==
    /\ Fetches(9)
    /\ \E d \in {Decode(9)} :
       \E e \in {IF d.fault = NoFault THEN op_relbase(Cpu, d.args) ELSE Done(Cpu)} :
          Finish(9, d, e, <<>>)

\* Instruction::HALT => break
StepHalt ==
    /\ Fetches(99)
    /\ \E d \in {Decode(99)} : Finish(99, d, Done(Cpu), <<>>)

\* fetch_and_decode panics before any parameter is packed: the opcode is not
\* one of the match arms (or the opcode word lies outside memory).
StepBadFetch ==
    /\ state = "Running"
    /\ LoopCond(ip)
    /\ Fetch.fault # NoFault \/ Opcode \notin Opcodes
    /\ Commit(Opcode, Panic(Cpu, IF Fetch.fault # NoFault THEN Fetch.fault ELSE BadOpcode),
              AddN(ip, W(1), 0), <<>>, <<>>)

\* The loop condition fails: run returns the Cpu.
LoopExit ==
    /\ state = "Running"
    /\ ~LoopCond(ip)
    /\ state' = "Exited"
    /\ UNCHANGED <<memory, ip, rbase, out, fault, last, program, given, overflowChecks>>

NoInstr ==
    [at |-> 0, opcode |-> 0, op |-> "NONE", args |-> <<>>, taken |-> FALSE,
     dest |-> -1, line |-> <<>>]

Init ==
    /\ \/ given \in Programs
       \/ \E t \in BoundaryTails : given = AtEnd(t)
       \/ given \in TooLong
    /\ program = Resize(given)
    /\ memory = program
    /\ ip = Zero
    /\ rbase = Zero
    /\ state = "Running"
    /\ out = <<>>
    /\ fault = NoFault
    /\ last = NoInstr
    /\ overflowChecks \in BOOLEAN

Next ==
    \/ StepAdd
    \/ StepMul
    \/ StepInput
    \/ StepOutput
    \/ StepJumpIfTrue
    \/ StepJumpIfFalse
    \/ StepLessThan
    \/ StepEquals
    \/ StepRelBase
    \/ StepHalt
    \/ StepBadFetch
    \/ LoopExit

Spec == Init /\ [][Next]_vars

\* The loop runs on its own: an iteration that can be taken is taken (input
\* arrives when it is asked for).
FairSpec == Spec /\ WF_vars(Next)

(***************************************************************************)
(* The vocabulary of the properties: the instruction about to run, read    *)
(* off the state as the instruction set defines it (opcode = word mod 100, *)
(* mode digit i of word / 100, val of a parameter), not as the code        *)
(* decodes it.                                                             *)
(***************************************************************************)
\* The loop is about to run an iteration on the word at address At.
AtIteration == state = "Running" /\ ULt(ip, W(Capacity))
At == Idx(ip)
Word == Rd(memory, At)
Op == RemSmall(Word, 100)

\* The mode digit and the raw word of parameter i (0-based).
ModeDigit(i) == RemSmall(DivSmall(Word, 100 * 10 ^ i), 10)
HasRaw(i) == At + 1 + i < Capacity
Raw(i) == Rd(memory, At + 1 + i)

\* An exact (128-bit) value that is the index of a cell.
IsCell(x) == FitsI64(x) /\ ~IsNeg(WrapI64(x)) /\ ULt(WrapI64(x), W(Capacity))

\* The address parameter i names (Position or Relative mode), exactly.
AddrOf(i) ==
    IF ModeDigit(i) = 0 THEN SignExtend(Raw(i), WideLimbs) ELSE ExactAdd(rbase, Raw(i))

\* val(p_i) is defined: the mode is valid and every cell it reads exists.
HasVal(i) ==
    /\ HasRaw(i)
    /\ ModeDigit(i) \in {0, 1, 2}
    /\ ModeDigit(i) # 1 => IsCell(AddrOf(i))

ValOf(i) == IF ModeDigit(i) = 1 THEN Raw(i) ELSE Rd(memory, Idx(WrapI64(AddrOf(i))))

\* The exact result of a writing instruction, and whether it is an i64.
ExactResult(op, a, b) ==
    CASE op = 1 -> ExactAdd(a, b)
      [] op = 2 -> ExactMul(a, b)
      [] op = 7 -> SignExtend(IF SLt(a, b) THEN W(1) ELSE W(0), WideLimbs)
      [] op = 8 -> SignExtend(IF a = b THEN W(1) ELSE W(0), WideLimbs)

\* The step wrote v to cell d and changed no other cell.
WroteOnly(d, v) ==
    /\ Rd(memory', d) = v
    /\ \A i \in (DOMAIN memory \cup DOMAIN memory') \ {d} : Rd(memory', i) = Rd(memory, i)

\* The step ran to its end: no panic.
NoPanic == state' # "Faulted" /\ fault' = NoFault

(***************************************************************************)
(* C1.  Relative-mode write: a writing instruction (Add, Multiply,         *)
(* LessThan, Equals) whose destination is Relative with offset o, run      *)
(* after AdjustRelativeBase set rbase = r with 0 <= r + o < capacity, does *)
(* not fault and stores its result in memory[r + o], leaving every other   *)
(* cell unchanged.                                                         *)
(***************************************************************************)
C1_Case ==
    /\ AtIteration
    /\ last.op = "RELBASE"
    /\ Op \in {1, 2, 7, 8}
    /\ HasVal(0) /\ HasVal(1)
    /\ HasRaw(2) /\ ModeDigit(2) = 2 /\ IsCell(AddrOf(2))
    /\ FitsI64(ExactResult(Op, ValOf(0), ValOf(1)))

C1_RelativeDestWrites ==
    [][C1_Case =>
        /\ NoPanic
        /\ WroteOnly(Idx(WrapI64(AddrOf(2))),
                     WrapI64(ExactResult(Op, ValOf(0), ValOf(1))))]_vars

(***************************************************************************)
(* C2.  Immediate-destination fault: an Add, Multiply, LessThan or Equals  *)
(* whose third parameter has mode digit 1 (Immediate) moves the machine to *)
(* Faulted, and memory and rbase are as before the step; when the three    *)
(* parameters decode, the fault is the destination check's.                *)
(***************************************************************************)
C2_Case == AtIteration /\ Op \in {1, 2, 7, 8} /\ ModeDigit(2) = 1

C2_ImmediateDestFaults ==
    [][C2_Case =>
        /\ state' = "Faulted"
        /\ memory' = memory
        /\ rbase' = rbase
        /\ (HasRaw(2) /\ ModeDigit(0) \in {0, 1, 2} /\ ModeDigit(1) \in {0, 1, 2})
              => fault' = BadDest]_vars

C2_Witness ==
    /\ state = "Faulted"
    /\ fault = BadDest
    /\ last.op \in {"ADD", "MUL", "LESSTHAN", "EQUALS"}
    /\ Len(last.args) = 3
    /\ last.args[3].mode = "Immediate"
    /\ memory = program

(***************************************************************************)
(* C3.  Add/Multiply result: an Add (Multiply) with in-bounds operands and *)
(* a Position-mode destination d leaves memory[d] = val(p0) + val(p1)      *)
(* (val(p0) * val(p1)), both values as held before the step, also when d   *)
(* is the address of an operand, and changes no other cell; the programs   *)
(* [1101,100,-1,4,0] and [1002,4,3,4,33] halt with memory[4] = 99.         *)
(***************************************************************************)
C3_Case ==
    /\ AtIteration
    /\ Op \in {1, 2}
    /\ HasVal(0) /\ HasVal(1)
    /\ HasRaw(2) /\ ModeDigit(2) = 0 /\ IsCell(AddrOf(2))

C3_TestsHalt ==
    program \in {Resize(TestAdd), Resize(TestMul)} =>
        /\ state \in {"Running", "Halted"}
        /\ state = "Halted" => Rd(memory, 4) = W(99)

\* As claimed: the cell holds the exact sum or product, whatever its size.
C3_Original ==
    /\ [][C3_Case =>
            /\ NoPanic
            /\ SignExtend(Rd(memory', Idx(Raw(2))), WideLimbs)
                  = ExactResult(Op, ValOf(0), ValOf(1))
            /\ WroteOnly(Idx(Raw(2)), Rd(memory', Idx(Raw(2))))]_vars
    /\ []C3_TestsHalt

\* Amended: the same, for a sum or product that fits a signed 64-bit integer.
C3_AddMulResult ==
    /\ [][C3_Case /\ FitsI64(ExactResult(Op, ValOf(0), ValOf(1))) =>
            /\ NoPanic
            /\ WroteOnly(Idx(Raw(2)), WrapI64(ExactResult(Op, ValOf(0), ValOf(1))))]_vars
    /\ []C3_TestsHalt

\* An Add or Multiply has written over the cell its first operand was read from.
C3_Witness ==
    /\ state = "Running"
    /\ last.op \in {"ADD", "MUL"}
    /\ last.args[1].mode = "Position"
    /\ last.args[3] = last.args[1]
    /\ last.dest = Idx(last.args[1].v)
    /\ Rd(memory, last.dest) # Rd(program, last.dest)

(***************************************************************************)
(* C4.  Jump semantics: after a JumpIfTrue (JumpIfFalse) fetched at a,     *)
(* ip = val(p1) if val(p0) # 0 (val(p0) = 0) and ip = a + 3 otherwise;     *)
(* memory and rbase are unchanged.                                         *)
(***************************************************************************)
C4_Taken == (ValOf(0) # Zero) = (Op = 5)

C4_Case ==
    /\ AtIteration
    /\ Op \in {5, 6}
    /\ HasVal(0)
    /\ HasRaw(1) /\ ModeDigit(1) \in {0, 1, 2}
    /\ C4_Taken => HasVal(1)

\* As claimed: ip is the number val(p1), which no usize is when val(p1) < 0.
C4_Original ==
    [][C4_Case =>
        /\ NoPanic
        /\ C4_Taken => ~IsNeg(ValOf(1)) /\ ip' = ValOf(1)
        /\ ~C4_Taken => ip' = W(At + 3)
        /\ memory' = memory /\ rbase' = rbase]_vars

TwoTo64 == <<0, 0, 0, 0, 1, 0, 0, 0>>
ZeroExtend(u, k) == [i \in 1..k |-> IF i <= Len(u) THEN u[i] ELSE 0]

\* Amended: ip is val(p1) when val(p1) >= 0 and val(p1) + 2^64 when it is
\* negative (val(p1) as usize).
C4_JumpSemantics ==
    [][C4_Case =>
        /\ NoPanic
        /\ C4_Taken =>
              ZeroExtend(ip', WideLimbs) =
                  IF IsNeg(ValOf(1))
                  THEN AddN(SignExtend(ValOf(1), WideLimbs), TwoTo64, 0)
                  ELSE SignExtend(ValOf(1), WideLimbs)
        /\ ~C4_Taken => ip' = W(At + 3)
        /\ memory' = memory /\ rbase' = rbase]_vars

\* A jump was taken to a negative target.
C4_Witness ==
    /\ state = "Running"
    /\ last.op = "JUMP"
    /\ last.taken
    /\ last.args[2].mode = "Immediate"
    /\ IsNeg(last.args[2].v)
    /\ ~ULt(ip, W(Capacity))

(***************************************************************************)
(* C5.  Boundary termination: when ip >= capacity at the start of a loop   *)
(* iteration the run ends normally (not Faulted, nothing changed), no      *)
(* opcode word is fetched at an index >= capacity, and an out-of-bounds    *)
(* fault comes only from a parameter read, an operand or a destination.    *)
(***************************************************************************)
C5_BoundaryExit ==
    /\ [][state = "Running" /\ ~ULt(ip, W(Capacity)) =>
            /\ state' = "Exited"
            /\ fault' = NoFault
            /\ memory' = memory /\ rbase' = rbase /\ out' = out /\ last' = last]_vars
    /\ [](/\ fault \in OobFaults => fault \in {OobParam, OobOperand, OobDest}
          /\ last.op # "NONE" => last.at < Capacity)

\* The run ended at the boundary after an instruction whose last word was
\* the final cell.
C5_Witness ==
    /\ state = "Exited"
    /\ fault = NoFault
    /\ ~last.taken
    /\ last.at + 1 + Len(last.args) = Capacity
    /\ ip = W(Capacity)

(***************************************************************************)
(* C6.  Quine: the run of [109,1,204,-1,1001,100,1,100,1008,100,16,101,    *)
(* 1006,101,0,99] reaches Halted without fault, and the values its Output  *)
(* instructions emit are exactly its 16 words, in order.                   *)
(***************************************************************************)
C6_Outputs ==
    program = Resize(Quine) =>
        /\ state \in {"Running", "Halted"}
        /\ fault = NoFault
        /\ Len(out) <= Len(Quine)
        /\ out = SubSeq(Quine, 1, Len(out))
        /\ state = "Halted" => out = Quine

C6_Quine == []C6_Outputs /\ (program = Resize(Quine) => <>(state = "Halted"))

C6_Witness ==
    /\ program = Resize(Quine)
    /\ state = "Halted"
    /\ Len(out) = 16
    /\ out[3] = W(204) /\ out[4] = W(-1) /\ out[16] = W(99)

(***************************************************************************)
(* C7.  Numeric width: [1102,34915192,34915192,7,4,7,99,0] emits exactly   *)
(* one output, 1219070632396864, and [104,1125899906842624,99] exactly     *)
(* one, 1125899906842624; both runs then halt.                             *)
(***************************************************************************)
C7_Emits(p, digits) ==
    program = Resize(p) =>
        /\ state \in {"Running", "Halted"}
        /\ Len(out) <= 1
        /\ Len(out) = 1 => Display(out[1]) = [neg |-> FALSE, digits |-> digits]
        /\ state = "Halted" => Len(out) = 1

C7_Wide ==
    /\ C7_Emits(BigMul, <<1, 2, 1, 9, 0, 7, 0, 6, 3, 2, 3, 9, 6, 8, 6, 4>>)
    /\ C7_Emits(BigOut, <<1, 1, 2, 5, 8, 9, 9, 9, 0, 6, 8, 4, 2, 6, 2, 4>>)

C7_NumericWidth ==
    /\ []C7_Wide
    /\ (program \in {Resize(BigMul), Resize(BigOut)} => <>(state = "Halted"))

\* The product was emitted and lies beyond 32 bits.
C7_Witness ==
    /\ program = Resize(BigMul)
    /\ state = "Halted"
    /\ Len(out) = 1
    /\ out[1][3] # 0

(***************************************************************************)
(* C8.  Run termination: every run eventually leaves Running.              *)
(***************************************************************************)
\* As claimed.
C8_Original == <>(state # "Running")

C8_JumpTaken == last.op = "JUMP" /\ last.taken

\* Amended: only taken jumps keep a run going.  An iteration that is not a
\* taken jump ends the run or moves ip strictly forward, ip >= capacity ends
\* the run, and a run that does not leave Running takes jumps again and again.
C8_Termination ==
    /\ [][state = "Running" =>
            \/ state' # "Running"
            \/ C8_JumpTaken'
            \/ ULt(ip, ip') /\ ULt(ip', W(Capacity + 1))]_vars
    /\ (<>(state # "Running") \/ []<>C8_JumpTaken)

\* A taken jump has put the machine back in its initial configuration.
C8_Witness ==
    /\ state = "Running"
    /\ C8_JumpTaken
    /\ ip = Zero /\ rbase = Zero /\ memory = program /\ out = <<>>

(***************************************************************************)
(* C9.  Invalid opcode fault: when the opcode of the fetched word (word    *)
(* mod 100) is not in {1,2,3,4,5,6,7,8,9,99}, the step moves the machine   *)
(* to Faulted, reporting the opcode and its position, without reading a    *)
(* parameter and without changing memory or rbase; so for opcode 0 fetched *)
(* from the zero padding after a program that does not end in Halt.        *)
(***************************************************************************)
C9_InvalidOpcode ==
    [][AtIteration /\ Op \notin {1, 2, 3, 4, 5, 6, 7, 8, 9, 99} =>
        /\ state' = "Faulted"
        /\ fault' = BadOpcode
        /\ last'.opcode = Op /\ last'.at = At /\ last'.args = <<>>
        /\ memory' = memory /\ rbase' = rbase /\ out' = out]_vars

\* Opcode 0 was fetched from the padding behind the program.
C9_Witness ==
    /\ state = "Faulted"
    /\ fault = BadOpcode
    /\ last.opcode = 0
    /\ \A i \in DOMAIN program : i < last.at
    /\ Rd(memory, last.at) = Zero

(***************************************************************************)
(* C10.  Input destination: an Input whose parameter is Position with raw  *)
(* value a stores the integer read in memory[a], one in Relative mode with *)
(* raw value o stores it in memory[rbase + o]; the value held at that      *)
(* address is not used as an address, and no other cell changes.           *)
(***************************************************************************)
C10_InputDestination ==
    [][(/\ AtIteration
        /\ Op = 3
        /\ HasRaw(0) /\ ModeDigit(0) \in {0, 2} /\ IsCell(AddrOf(0))
        /\ last'.line # ReadError
        /\ ParseI64(last'.line).fault = NoFault) =>
        /\ NoPanic
        /\ WroteOnly(Idx(WrapI64(AddrOf(0))), ParseI64(last'.line).v)]_vars

(***************************************************************************)
(* C11.  Output ordering: the output sink receives exactly the val(p0) of  *)
(* the Output instructions executed, one value for each and in execution   *)
(* order: an Output step that does not fault appends val(p0) to the values *)
(* emitted so far, changes neither memory nor rbase and moves ip to the    *)
(* address after its parameter; one that faults emits nothing; an Output   *)
(* whose val(p0) is defined does not fault; no other step emits anything,  *)
(* and nothing is emitted before the first instruction.  (val(p0) of a     *)
(* Relative parameter is read at the address as unpack_parameter computes  *)
(* it, (rbase + x) as usize.)                                              *)
(***************************************************************************)
C11_Output == AtIteration /\ Op = 4

C11_Case == C11_Output /\ HasVal(0)

C11_OutputOrdering ==
    /\ [][C11_Output =>
            \/ /\ NoPanic
               /\ HasRaw(0) /\ ModeDigit(0) \in {0, 1, 2}
               /\ out' = Append(out, ValOf(0))
               /\ memory' = memory /\ rbase' = rbase
               /\ ip' = W(At + 2)
            \/ /\ state' = "Faulted"
               /\ ~C11_Case
               /\ out' = out]_vars
    /\ [][~C11_Output => out' = out]_vars
    /\ [](last = NoInstr => out = <<>>)

\* A second, different value was emitted after the first.
C11_Witness ==
    /\ state = "Running"
    /\ last.op = "OUTPUT"
    /\ Len(out) = 2
    /\ out[1] # out[2]

(***************************************************************************)
(* C12.  Input with Immediate destination: an Input whose parameter has    *)
(* mode digit 1 (Immediate) moves the machine to Faulted and writes no     *)
(* memory cell.                                                            *)
(***************************************************************************)
C12_InputImmediateFaults ==
    [][AtIteration /\ Op = 3 /\ HasRaw(0) /\ ModeDigit(0) = 1 =>
        /\ state' = "Faulted"
        /\ memory' = memory]_vars

(***************************************************************************)
(* C13.  Invalid addressing mode: when one of the n mode digits of an      *)
(* instruction that consumes n parameters is outside {0,1,2}, the step     *)
(* moves the machine to Faulted during decode: no operand is dereferenced  *)
(* and nothing is written, so memory, rbase and the output are unchanged;  *)
(* when the n parameter words lie in memory the fault is the mode's.       *)
(***************************************************************************)
\* The parameter count of the instruction set's opcodes.
CountOf(op) ==
    CASE op \in {1, 2, 7, 8} -> 3
      [] op \in {5, 6} -> 2
      [] op \in {3, 4, 9} -> 1
      [] op = 99 -> 0

C13_Case ==
    /\ AtIteration
    /\ Op \in {1, 2, 3, 4, 5, 6, 7, 8, 9}
    /\ \E i \in 0..(CountOf(Op) - 1) : ModeDigit(i) \notin {0, 1, 2}

C13_InvalidMode ==
    [][C13_Case =>
        /\ state' = "Faulted"
        /\ fault' \in {BadMode, OobParam}
        /\ HasRaw(CountOf(Op) - 1) => fault' = BadMode
        /\ Len(last'.args) < CountOf(Op)
        /\ last'.dest = -1
        /\ memory' = memory /\ rbase' = rbase /\ out' = out]_vars

\* The third mode digit of a three-parameter instruction was invalid: the
\* first two parameters were packed and nothing else happened.
C13_Witness ==
    /\ state = "Faulted"
    /\ fault = BadMode
    /\ last.op \in {"ADD", "MUL", "LESSTHAN", "EQUALS"}
    /\ Len(last.args) = 2
    /\ memory = program

(***************************************************************************)
(* C14.  Out-of-bounds access is a fault: when the index of a parameter    *)
(* word, the address x of a Position operand or rbase + x of a Relative    *)
(* operand the instruction dereferences, or a destination address, is      *)
(* negative or >= capacity, the step moves the machine to Faulted; the     *)
(* address is never clamped or wrapped to a cell in range, and no cell     *)
(* outside 0..capacity-1 is ever read or written.                          *)
(***************************************************************************)
\* Parameter i names an address (Position or Relative) that is no cell.
OobAddr(i) == ModeDigit(i) \in {0, 2} /\ ~IsCell(AddrOf(i))

\* The instruction about to run reaches outside memory: with a parameter
\* word, with an operand it dereferences (the target of a jump only when the
\* jump is taken) or with its destination.
C14_Case ==
    /\ AtIteration
    /\ Op \in {1, 2, 3, 4, 5, 6, 7, 8, 9}
    /\ \/ ~HasRaw(CountOf(Op) - 1)
       \/ OobAddr(0)
       \/ Op \in {1, 2, 7, 8} /\ (OobAddr(1) \/ OobAddr(2))
       \/ Op \in {5, 6} /\ HasVal(0) /\ C4_Taken /\ OobAddr(1)

C14_OutOfBoundsFaults ==
    /\ [][C14_Case => state' = "Faulted" /\ memory' = memory]_vars
    /\ [](/\ DOMAIN memory \subseteq 0..(Capacity - 1)
          /\ last.dest \in -1..(Capacity - 1))

(***************************************************************************)
(* C15.  Relative base frame: rbase is 0 initially, an AdjustRelativeBase  *)
(* step sets rbase to rbase + val(p0) and writes no memory cell, and every *)
(* step of another instruction, like every faulting step, leaves rbase     *)
(* unchanged.                                                              *)
(***************************************************************************)
C15_Case == AtIteration /\ Op = 9 /\ HasVal(0)

C15_Frame ==
    /\ [][~(AtIteration /\ Op = 9) \/ state' = "Faulted" => rbase' = rbase]_vars
    /\ [](last = NoInstr => rbase = Zero)

\* As claimed: the new rbase is the number rbase + val(p0), whatever its size.
C15_Original ==
    /\ [][C15_Case =>
            /\ NoPanic
            /\ SignExtend(rbase', WideLimbs) = ExactAdd(rbase, ValOf(0))
            /\ memory' = memory]_vars
    /\ C15_Frame

\* Amended: the same, for a sum that fits a signed 64-bit integer.
C15_RelativeBase ==
    /\ [][C15_Case /\ FitsI64(ExactAdd(rbase, ValOf(0))) =>
            /\ NoPanic
            /\ rbase' = WrapI64(ExactAdd(rbase, ValOf(0)))
            /\ memory' = memory]_vars
    /\ C15_Frame

\* A second AdjustRelativeBase has added to a non-zero rbase.
C15_Witness ==
    /\ state = "Running"
    /\ last.op = "RELBASE"
    /\ last.at > 0
    /\ last.args[1].mode = "Immediate"
    /\ last.args[1].v # Zero
    /\ rbase # last.args[1].v
    /\ memory = program

(***************************************************************************)
(* C16.  Terminal states: executing Halt moves the machine to Halted with  *)
(* memory and rbase unchanged; once the machine is Halted or Faulted no    *)
(* step is taken, so memory, rbase and the output never change again; and  *)
(* a faulting step leaves memory as the instructions completed before it   *)
(* left it (no rollback).                                                  *)
(***************************************************************************)
C16_TerminalStates ==
    /\ [][AtIteration /\ Op = 99 =>
            /\ state' = "Halted"
            /\ fault' = NoFault
            /\ memory' = memory /\ rbase' = rbase /\ out' = out]_vars
    /\ [][state \notin {"Halted", "Faulted"}]_vars
    /\ [][state' = "Faulted" => memory' = memory /\ rbase' = rbase /\ out' = out]_vars

\* The run faulted after an instruction had written a cell, and the cell
\* still holds what was written.
C16_Witness ==
    /\ state = "Faulted"
    /\ last.dest = -1
    /\ \E i \in DOMAIN memory : Rd(memory, i) # Rd(program, i)

(***************************************************************************)
(* C17.  Decode shape and ip advance: for a non-negative word w fetched at *)
(* address a, parameter i (0-based) has the mode of decimal digit i of     *)
(* floor(w / 100) (0 Position, 1 Immediate, 2 Relative) and the raw value  *)
(* memory[a + 1 + i]; there are 3 parameters for opcodes 1, 2, 7, 8, one   *)
(* for 3, 4, 9, two for 5, 6 and none for 99; and after a non-faulting     *)
(* step of an instruction that is neither Halt nor a taken jump,           *)
(* ip = a + 1 + count.                                                     *)
(***************************************************************************)
ModeName(digit) ==
    CASE digit = 0 -> "Position" [] digit = 1 -> "Immediate" [] digit = 2 -> "Relative"

\* The word decodes: an opcode of the set, its parameter words in memory and
\* valid mode digits.
C17_Case ==
    /\ AtIteration
    /\ ~IsNeg(Word)
    /\ Op \in {1, 2, 3, 4, 5, 6, 7, 8, 9, 99}
    /\ HasRaw(CountOf(Op) - 1)
    /\ \A i \in 0..(CountOf(Op) - 1) : ModeDigit(i) \in {0, 1, 2}

C17_DecodeShape ==
    [][C17_Case =>
        /\ last'.at = At
        /\ last'.opcode = Op
        /\ last'.args = [i \in 1..CountOf(Op) |->
                            [mode |-> ModeName(ModeDigit(i - 1)), v |-> Raw(i - 1)]]
        /\ (NoPanic /\ Op # 99 /\ (Op \in {5, 6} => ~C4_Taken))
              => ip' = W(At + 1 + CountOf(Op))]_vars

\* A jump with a Relative and an Immediate parameter was not taken.
C17_Witness ==
    /\ state = "Running"
    /\ last.op = "JUMP"
    /\ ~last.taken
    /\ last.args[1].mode = "Relative"
    /\ last.args[2].mode = "Immediate"
    /\ ip = W(last.at + 3)


(***************************************************************************)
(* C18  Initial state and fixed capacity.  After construction from the     *)
(* program `given`, ip and rbase are 0, every word of the program is in    *)
(* memory at its index (so none is lost), every other cell is 0; and in    *)
(* every reachable state memory has exactly Capacity cells, all of its     *)
(* non-zero cells lying in 0..Capacity-1.                                  *)
(***************************************************************************)
Constructed == last = NoInstr /\ state = "Running"

C18_InitialState ==
    /\ Constructed =>
          /\ ip = Zero
          /\ rbase = Zero
          /\ \A i \in 1..Len(given) : i <= Capacity /\ Rd(memory, i - 1) = given[i]
          /\ \A i \in DOMAIN memory : i < Len(given)
    /\ MemLen = W(Capacity)
    /\ DOMAIN memory \subseteq 0..(Capacity - 1)


(***************************************************************************)
(* C19  Negative jump target.  A taken JumpIfTrue/JumpIfFalse whose target *)
(* val(p1) is negative does not fault: the step leaves the machine Running *)
(* with an ip that is not below Capacity and with memory, rbase and the    *)
(* output unchanged; and the only step after it is the loop check, which   *)
(* ends the run as a boundary termination, executing no instruction and    *)
(* changing nothing else.                                                  *)
(***************************************************************************)
C19_Case == C4_Case /\ C4_Taken /\ IsNeg(ValOf(1))

\* The state such a jump leaves: ip holds the bits of the negative target.
C19_Jumped == state = "Running" /\ last.op = "JUMP" /\ last.taken /\ IsNeg(ip)

C19_NegativeJumpTarget ==
    /\ [][C19_Case =>
            /\ NoPanic
            /\ C19_Jumped'
            /\ ip' = ValOf(1)
            /\ ~ULt(ip', W(Capacity))
            /\ memory' = memory /\ rbase' = rbase /\ out' = out]_vars
    /\ [][C19_Jumped =>
            /\ state' = "Exited"
            /\ fault' = NoFault
            /\ UNCHANGED <<memory, ip, rbase, out, last>>]_vars

C19_Witness ==
    /\ state = "Exited"
    /\ last.op = "JUMP" /\ last.taken /\ last.opcode = 6
    /\ last.args[2] = [mode |-> "Immediate", v |-> W(-1)]
    /\ ip = W(-1)
    /\ memory = program


(***************************************************************************)
(* C20  Negative opcode word.  An iteration that fetches a negative word   *)
(* as its opcode word faults as an invalid opcode: no instruction is       *)
(* decoded, no parameter is packed and memory, rbase and the output are    *)
(* unchanged.  The opcode is the remainder of the word by 100 with the     *)
(* sign of the word, so it lies in -99..0; the words -1 and -99 are not    *)
(* Halt and -101 is not Add.                                               *)
(***************************************************************************)
C20_Case == AtIteration /\ IsNeg(Word)

C20_NegativeOpcode ==
    [][C20_Case =>
        /\ state' = "Faulted"
        /\ fault' = BadOpcode
        /\ last'.at = At
        /\ last'.op = "INVALID"
        /\ last'.args = <<>>
        /\ last'.opcode \in -99..0
        /\ Word = W(-1) => last'.opcode = -1
        /\ Word = W(-99) => last'.opcode = -99
        /\ Word = W(-101) => last'.opcode = -1
        /\ memory' = memory /\ rbase' = rbase /\ out' = out]_vars

C20_Witness ==
    /\ state = "Faulted"
    /\ fault = BadOpcode
    /\ Rd(memory, last.at) = W(-101)
    /\ last.opcode = -1
====
